---- MODULE Spec2Model ----
(***************************************************************************)
(* Model of the VacEcPro subscription backend (src/server.js): the three   *)
(* Firestore collections it keeps (subscriptionsById, userSubscriptions,   *)
(* users) and the request handlers that read and write them.               *)
(*                                                                         *)
(* Every handler is an async function: between two awaits it runs without  *)
(* interruption, and at every await other requests may run.  A request is  *)
(* therefore a small process whose pc names the await it is suspended at;  *)
(* one action is the effect of the awaited call followed by the            *)
(* synchronous code up to the next await.                                  *)
(*                                                                         *)
(* Time is counted in whole days (the factor 24*60*60*1000 of the source   *)
(* is the unit).  The variable now is the latest instant Date.now() has    *)
(* answered; a later call answers that instant or a later one.             *)
(***************************************************************************)
EXTENDS Integers, Sequences, FiniteSets, Bags, TLC

VARIABLES
    subscriptionsById,   \* collection subscriptionsById: subscription id -> document
    userSubscriptions,   \* collection userSubscriptions: email -> document
    users,               \* collection users: email -> document
    now,                 \* the latest answer of Date.now(), in days
    req,                 \* the requests in flight: a bag of handler frames
    out,                 \* the last response sent, with the frame that sent it
    started              \* number of requests received so far

vars == <<subscriptionsById, userSubscriptions, users, now, req, out, started>>

stores == <<subscriptionsById, userSubscriptions, users>>

-----------------------------------------------------------------------------
(* Bounds of the model *)

MaxOps == 2      \* requests received in one behaviour
MaxNow == 1      \* last value of the clock

Slots == {1, 2}  \* one slot for every request that can be in flight

-----------------------------------------------------------------------------
(* JavaScript values *)

NULL == "null"                    \* null and undefined of a string-valued field
NoTime == <<>>                    \* null of an ISO-instant field
NoDoc == [f \in {} |-> NULL]      \* a document that does not exist; {} in `prevData`

Truthy(s) == s # NULL /\ s # ""

\* a || b on strings
OrElse(a, b) == IF Truthy(a) THEN a ELSE b

\* a || b on ISO instants
OrElseTime(a, b) == IF a # NoTime THEN a ELSE b

\* doc.f, undefined when the field is missing
Field(doc, f) == IF f \in DOMAIN doc THEN doc[f] ELSE NULL

FieldTime(doc, f) == IF f \in DOMAIN doc THEN doc[f] ELSE NoTime

\* new Date(t).toISOString() and Date.parse(iso)
toISOString(t) == <<t>>

DateParse(iso) == iso[1]

\* String(x).trim().toLowerCase() on the strings the model sends
toLowerCase(s) ==
    CASE s = "A@X.com" -> "a@x.com"
      [] s = " b@x.com " -> "b@x.com"
      [] s = "Monthly" -> "monthly"
      [] s = NULL -> ""
      [] OTHER -> s

-----------------------------------------------------------------------------
(* Configuration and inputs *)

ADMIN_KEY == "secret"

ACTIVE_STATUSES == {"ACTIVE", "APPROVAL_PENDING", "APPROVED"}

YearlyPlanId == "P-4B997107KS231694UNE3ADTY"

MonthlyPlanId == "P-7WS92829J39649832NE3ABTY"

GraceDays == 2

\* the keys of the collections
Emails == {"a@x.com", "b@x.com"}

SubIds == {"I-1", "I-2"}

\* the statuses and plans of the billing provider
Statuses == {"APPROVAL_PENDING", "APPROVED", "ACTIVE", "SUSPENDED", "CANCELLED", "EXPIRED"}

PlanIds == {MonthlyPlanId, YearlyPlanId, "P-OTHER"}

\* what the billing provider answers for subscription id in the model:
\* status, plan and billing instants (all present or all absent)
ProviderAnswers ==
    { <<"ACTIVE", MonthlyPlanId, toISOString(0)>>,
      <<"APPROVED", YearlyPlanId, NoTime>>,
      <<"APPROVAL_PENDING", "P-OTHER", NoTime>>,
      <<"CANCELLED", MonthlyPlanId, NoTime>> }

Subscription(id, x) ==
    [ id |-> id, status |-> x[1], plan_id |-> x[2], start_time |-> x[3],
      next_billing_time |-> x[3], last_payment_time |-> x[3] ]

Subscriptions(id) == { Subscription(id, x) : x \in ProviderAnswers }

\* what clients send
RawSubIds == {"I-1", ""}

RawEmails == {"a@x.com", "A@X.com", NULL}

RawKeys == {ADMIN_KEY, "wrong", NULL}

RawPlans == {"monthly", "yearly", "Monthly", "weekly", NULL}

EventTypes == {"BILLING.SUBSCRIPTION.CANCELLED"}

\* the fields a webhook event embeds in its resource besides the id
Payloads ==
    { [status |-> "ACTIVE", plan_id |-> MonthlyPlanId],
      [status |-> "CANCELLED", plan_id |-> YearlyPlanId] }

\* the bodies of the webhook deliveries
Events ==
    { [event_type |-> ev, resource |-> [id |-> id, status |-> p.status, plan_id |-> p.plan_id]] :
        ev \in EventTypes, id \in RawSubIds, p \in Payloads }

-----------------------------------------------------------------------------
(* Helpers of src/server.js *)

\* the instant is computed without reading the clock
daysFromNowToIso_noClock(days, t) == toISOString(days)

daysFromNowToIso(days, t) == toISOString(t + days)

computeExpiresAtIso(plan, t) ==
    LET p == toLowerCase(OrElse(plan, ""))
    IN  IF p = "yearly" THEN daysFromNowToIso(365, t)
        ELSE IF p = "monthly" THEN daysFromNowToIso(30, t)
        ELSE NoTime

\* the grace period is taken off the instant
addGraceMs_subtracts(iso, graceDays) ==
    IF iso = NoTime THEN NoTime
    ELSE toISOString(DateParse(iso) - graceDays)

addGraceMs(iso, graceDays) ==
    IF iso = NoTime THEN NoTime
    ELSE toISOString(DateParse(iso) + graceDays)

\* the pending and approved statuses are not counted as active
IsActiveStatus_onlyActive(status) == status = "ACTIVE"

IsActiveStatus(status) == status \in ACTIVE_STATUSES

\* a plan id outside the table is taken for the monthly plan
PlanOf_defaultsMonthly(plan_id) ==
    IF plan_id = YearlyPlanId THEN "yearly" ELSE "monthly"

PlanOf(plan_id) ==
    IF plan_id = YearlyPlanId THEN "yearly"
    ELSE IF plan_id = MonthlyPlanId THEN "monthly"
    ELSE NULL

\* ref.set(data, { merge: true }): the fields of data replace those of the
\* document, the other fields of the document stay
MergeSet(doc, data) ==
    [f \in (DOMAIN doc) \cup (DOMAIN data) |->
        IF f \in DOMAIN data THEN data[f] ELSE doc[f]]

-----------------------------------------------------------------------------
(* upsertSubscriptionInFirestore: the data of its two writes *)

\* the stored binding is not read back
FinalEmail_noFallback(email, prevData) == OrElse(email, NULL)

\* const finalEmail = email || prevData.email || null
FinalEmail(email, prevData) == OrElse(email, OrElse(Field(prevData, "email"), NULL))

\* the document given to subscriptionsById/{id}.set(..., { merge: true })
SubscriptionDoc(subscription, email, lastWebhookEvent, prevData) ==
    [ subscriptionId   |-> subscription.id,
      email            |-> FinalEmail(email, prevData),
      status           |-> subscription.status,
      planId           |-> subscription.plan_id,
      startTime        |-> OrElseTime(subscription.start_time,
                                      FieldTime(prevData, "startTime")),
      nextBillingTime  |-> subscription.next_billing_time,
      lastPaymentTime  |-> subscription.last_payment_time,
      lastWebhookEvent |-> OrElse(lastWebhookEvent,
                                  OrElse(Field(prevData, "lastWebhookEvent"), NULL)) ]

\* the document given to userSubscriptions/{key}.set(..., { merge: true })
IndexDoc(subscription, finalEmail, lastWebhookEvent) ==
    [ email            |-> toLowerCase(finalEmail),
      userId           |-> toLowerCase(finalEmail),
      subscriptionId   |-> subscription.id,
      status           |-> subscription.status,
      planId           |-> subscription.plan_id,
      startTime        |-> subscription.start_time,
      nextBillingTime  |-> subscription.next_billing_time,
      lastPaymentTime  |-> subscription.last_payment_time,
      lastWebhookEvent |-> OrElse(lastWebhookEvent, NULL) ]

\* updatedAt: admin.firestore.FieldValue.serverTimestamp(), the sentinel the
\* Firestore server replaces by its own time
Stamped(data) == MergeSet(data, [updatedAt |-> "serverTimestamp"])

-----------------------------------------------------------------------------
(* upsertUserEntitlement: the data of its write *)

\* the expiry is computed from the plan whether the entitlement is active or not
EntitlementExpiresAt_ungated(expiresAtIso, activeForApp, plan, t) ==
    addGraceMs(OrElseTime(expiresAtIso, computeExpiresAtIso(plan, t)), GraceDays)

\* let expiresAt = expiresAtIso || (activeForApp ? computeExpiresAtIso(plan) : null);
\* expiresAt = addGraceMs(expiresAt, 2)
EntitlementExpiresAt(expiresAtIso, activeForApp, plan, t) ==
    addGraceMs(OrElseTime(expiresAtIso,
                          IF activeForApp THEN computeExpiresAtIso(plan, t) ELSE NoTime),
               GraceDays)

\* an inactive entitlement is written without its expiresAt field, so that the
\* merge leaves the stored expiry
EntitlementDoc_keepsExpiry(a, t) ==
    LET data == [ email              |-> toLowerCase(a.email),
                  proActive          |-> a.activeForApp,
                  plan               |-> OrElse(a.plan, NULL),
                  source             |-> OrElse(a.source, "unknown"),
                  subscriptionStatus |-> OrElse(a.subscriptionStatus, NULL),
                  subscriptionId     |-> OrElse(a.subscriptionId, NULL),
                  planId             |-> OrElse(a.planId, NULL),
                  nextBillingTime    |-> OrElseTime(a.nextBillingTime, NoTime),
                  lastPaymentTime    |-> OrElseTime(a.lastPaymentTime, NoTime),
                  lastValidatedAt    |-> toISOString(t) ]
    IN  IF a.activeForApp
        THEN MergeSet(data, [expiresAt |-> EntitlementExpiresAt(a.expiresAtIso,
                                                                a.activeForApp, a.plan, t)])
        ELSE data

\* the document given to users/{emailLower}.set(..., { merge: true }); a is the
\* argument object, t is Date.now() when upsertUserEntitlement runs
EntitlementDoc(a, t) ==
    [ email              |-> toLowerCase(a.email),
      proActive          |-> a.activeForApp,
      plan               |-> OrElse(a.plan, NULL),
      source             |-> OrElse(a.source, "unknown"),
      subscriptionStatus |-> OrElse(a.subscriptionStatus, NULL),
      subscriptionId     |-> OrElse(a.subscriptionId, NULL),
      planId             |-> OrElse(a.planId, NULL),
      nextBillingTime    |-> OrElseTime(a.nextBillingTime, NoTime),
      lastPaymentTime    |-> OrElseTime(a.lastPaymentTime, NoTime),
      expiresAt          |-> EntitlementExpiresAt(a.expiresAtIso, a.activeForApp, a.plan, t),
      lastValidatedAt    |-> toISOString(t) ]

\* the status of the subscription is not passed
PayPalEntitlementArgs_noStatus(subscription, infoEmail) ==
    [ email              |-> infoEmail,
      activeForApp       |-> IsActiveStatus(subscription.status),
      plan               |-> PlanOf(subscription.plan_id),
      source             |-> "paypal",
      subscriptionStatus |-> NULL,
      subscriptionId     |-> subscription.id,
      planId             |-> subscription.plan_id,
      nextBillingTime    |-> subscription.next_billing_time,
      lastPaymentTime    |-> subscription.last_payment_time,
      expiresAtIso       |-> NoTime ]

\* the argument object the validate and webhook handlers pass
PayPalEntitlementArgs(subscription, infoEmail) ==
    [ email              |-> infoEmail,
      activeForApp       |-> IsActiveStatus(subscription.status),
      plan               |-> PlanOf(subscription.plan_id),
      source             |-> "paypal",
      subscriptionStatus |-> subscription.status,
      subscriptionId     |-> subscription.id,
      planId             |-> subscription.plan_id,
      nextBillingTime    |-> subscription.next_billing_time,
      lastPaymentTime    |-> subscription.last_payment_time,
      expiresAtIso       |-> NoTime ]

\* the source is not passed
QrEntitlementArgs_noSource(email, plan, t) ==
    [ email              |-> email,
      activeForApp       |-> TRUE,
      plan               |-> plan,
      source             |-> NULL,
      subscriptionStatus |-> "ACTIVE",
      subscriptionId     |-> NULL,
      planId             |-> NULL,
      nextBillingTime    |-> NoTime,
      lastPaymentTime    |-> NoTime,
      expiresAtIso       |-> IF plan = "yearly" THEN daysFromNowToIso(365, t)
                             ELSE daysFromNowToIso(30, t) ]

\* the argument object the activate-qr handler passes
QrEntitlementArgs(email, plan, t) ==
    [ email              |-> email,
      activeForApp       |-> TRUE,
      plan               |-> plan,
      source             |-> "qr",
      subscriptionStatus |-> "ACTIVE",
      subscriptionId     |-> NULL,
      planId             |-> NULL,
      nextBillingTime    |-> NoTime,
      lastPaymentTime    |-> NoTime,
      expiresAtIso       |-> IF plan = "yearly" THEN daysFromNowToIso(365, t)
                             ELSE daysFromNowToIso(30, t) ]

\* the legacy index document the activate-qr handler writes
QrIndexDoc(email, plan, t) ==
    [ email            |-> email,
      userId           |-> email,
      status           |-> "ACTIVE",
      planId           |-> IF plan = "yearly" THEN "MANUAL_YEARLY" ELSE "MANUAL_MONTHLY",
      subscriptionId   |-> "MANUAL_QR_" \o ToString(t),
      startTime        |-> toISOString(t),
      nextBillingTime  |-> NoTime,
      lastPaymentTime  |-> toISOString(t),
      lastWebhookEvent |-> "MANUAL_QR_ACTIVATION" ]

-----------------------------------------------------------------------------
(* Request frames *)

Idle ==
    [ op               |-> "idle",    \* the handler
      pc               |-> "idle",    \* the await it is suspended at
      key              |-> NULL,      \* activate-qr: the x-admin-key header
      subscriptionId   |-> NULL,      \* request arguments, normalised
      email            |-> NULL,
      plan             |-> NULL,
      lastWebhookEvent |-> NULL,
      payload          |-> NoDoc,     \* webhook: the resource embedded in req.body
      isValid          |-> NULL,      \* what verifyWebhookSignature answered
      subscription     |-> NoDoc,     \* what getSubscriptionFromPayPal answered
      fetchNo          |-> 0,         \* the rank of that answer among the provider's
      prevData         |-> NoDoc,     \* what the handler read from the store
      finalEmail       |-> NULL,
      pending          |-> NoDoc,     \* the data of the write it is awaiting
      expiresAtIso     |-> NoTime,    \* activate-qr: the expiry it will report
      calls            |-> <<>>,      \* the calls it has awaited, in order
      read             |-> {},        \* the collections it has read
      wrote            |-> {},        \* the collections it has written
      res              |-> NoDoc ]    \* the response it sent

Frame(op, pc) == [Idle EXCEPT !.op = op, !.pc = pc]

Response(status, body) == [status |-> status, body |-> body]

InFlight == BagToSet(req)

\* a request can be received while a slot is free
CanStart == started < MaxOps /\ BagCardinality(req) < Cardinality(Slots)

\* frame g issues the call it is suspended at; at "entitle" and "qrIndex" the
\* handler is between two calls
Called(g) ==
    IF g.pc \in {"entitle", "qrIndex"} THEN g
    ELSE [g EXCEPT !.calls = Append(@, g.pc)]

\* a request is received and its handler runs to its first await
Start(frame) ==
    /\ req' = req (+) SetToBag({Called(frame)})
    /\ UNCHANGED out

\* the handler of frame f goes on to its next await as frame g
Continue(f, g) ==
    /\ req' = (req (-) SetToBag({f})) (+) SetToBag({Called(g)})
    /\ UNCHANGED out

\* what is kept of a handler after its response: of the document a
\* reconciliation read, only the email it was bound to
Done(frame, res) ==
    [frame EXCEPT !.pc = "done", !.res = res, !.pending = NoDoc, !.calls = <<>>,
                  !.expiresAtIso = NoTime, !.lastWebhookEvent = NULL,
                  !.prevData = IF "subscriptionsById" \in frame.read
                               THEN [email |-> Field(@, "email")]
                               ELSE @]

\* the handler of frame f, now frame, responds and ends
Respond(f, frame, res) ==
    /\ req' = req (-) SetToBag({f})
    /\ out' = Done(frame, res)

\* a handler that responds before its first await
Answer(frame, res) ==
    /\ req' = req
    /\ out' = Done(frame, res)

\* the catch of the webhook handler acknowledges the delivery
ErrorResponse_acknowledges(op) ==
    IF op = "webhook" THEN Response(200, [text |-> "OK"])
    ELSE Response(500, [ok |-> FALSE])

\* catch (e) { return res.status(500)... }; the message of the error is left out
ErrorResponse(op) ==
    IF op = "webhook" THEN Response(500, [text |-> "ERROR"])
    ELSE Response(500, [ok |-> FALSE])

-----------------------------------------------------------------------------
(* POST /api/paypal/validate-subscription *)

ValidateResponse(subscription, infoEmail) ==
    Response(200, [ ok                 |-> TRUE,
                    userId             |-> infoEmail,
                    activeForApp       |-> IsActiveStatus(subscription.status),
                    subscriptionStatus |-> subscription.status,
                    subscriptionId     |-> subscription.id,
                    planId             |-> subscription.plan_id ])

\* the request arrives; the handler parses it and asks PayPal for the subscription
StartValidate(rawId, rawEmail) ==
    /\ CanStart
    /\ started' = started + 1
    /\ LET subscriptionId == rawId
           email == OrElse(toLowerCase(rawEmail), NULL)
           frame == [Frame("validate", "fetch") EXCEPT
                        !.subscriptionId = subscriptionId,
                        !.email = email,
                        !.lastWebhookEvent = "VALIDATE_SUBSCRIPTION"]
       IN  IF ~Truthy(subscriptionId)
           THEN Answer(frame, Response(400, [ok |-> FALSE,
                                             message |-> "subscriptionId es requerido"]))
           ELSE Start(frame)
    /\ UNCHANGED <<stores, now>>

-----------------------------------------------------------------------------
(* POST /api/paypal/webhook *)

\* the handler asks PayPal for the subscription before the signature is verified
StartWebhook_fetchesFirst(event) ==
    /\ CanStart
    /\ started' = started + 1
    /\ Start([Frame("webhook", IF Truthy(event.resource.id) THEN "fetch" ELSE "verify")
                 EXCEPT !.subscriptionId = event.resource.id,
                        !.lastWebhookEvent = event.event_type,
                        !.payload = event.resource])
    /\ UNCHANGED <<stores, now>>

\* the delivery arrives; the handler asks PayPal to verify its signature
StartWebhook(event) ==
    /\ CanStart
    /\ started' = started + 1
    /\ Start([Frame("webhook", "verify") EXCEPT !.subscriptionId = event.resource.id,
                                               !.lastWebhookEvent = event.event_type,
                                               !.payload = event.resource])
    /\ UNCHANGED <<stores, now>>

\* the answer of the verification is not looked at
RejectsSignature_never(isValid) == FALSE

\* if (!isValid) return res.status(400).send("INVALID_SIGNATURE")
RejectsSignature(isValid) == ~isValid

\* an event without resource id is reconciled like any other
NoSubscriptionId_never(subscriptionId) == FALSE

\* if (!subscriptionId) return res.status(200).send("NO_SUBSCRIPTION_ID")
NoSubscriptionId(subscriptionId) == ~Truthy(subscriptionId)

\* verifyWebhookSignature answers verification_status
VerifySignature(f, verification_status) ==
    /\ f.pc = "verify"
    /\ LET isValid == (verification_status = "SUCCESS")
           frame == [f EXCEPT !.isValid = IF isValid THEN "true" ELSE "false"]
       IN  IF RejectsSignature(isValid)
           THEN Respond(f, frame, Response(400, [text |-> "INVALID_SIGNATURE"]))
           ELSE IF NoSubscriptionId(frame.subscriptionId)
           THEN Respond(f, frame, Response(200, [text |-> "NO_SUBSCRIPTION_ID"]))
           ELSE Continue(f, [frame EXCEPT !.pc = "fetch"])
    /\ UNCHANGED <<stores, now, started>>

\* an error of the verification is swallowed and the delivery is processed
VerifySignatureThrows_failsOpen(f) ==
    /\ f.pc = "verify"
    /\ Continue(f, [f EXCEPT !.isValid = "error", !.pc = "fetch"])
    /\ UNCHANGED <<stores, now, started>>

\* verifyWebhookSignature throws: no webhook id, token exchange or call failed
VerifySignatureThrows(f) ==
    /\ f.pc = "verify"
    /\ Respond(f, [f EXCEPT !.isValid = "error"], ErrorResponse("webhook"))
    /\ UNCHANGED <<stores, now, started>>

-----------------------------------------------------------------------------
(* The reconciliation the validate and webhook handlers share *)

\* the answers of the provider are ranked in the order it gives them: the rank
\* of the latest answer among the requests in flight and the last one answered
LastFetchNo ==
    LET ranks == { g.fetchNo : g \in InFlight \cup {out} }
    IN  CHOOSE n \in ranks : \A m \in ranks : m <= n

\* getSubscriptionFromPayPal answers; upsertSubscriptionInFirestore starts and
\* reads subscriptionsById/{id}
FetchSubscription(f, subscription) ==
    /\ f.pc = "fetch"
    /\ Continue(f, [f EXCEPT !.subscription = subscription,
                             !.fetchNo = LastFetchNo + 1,
                             !.pc = "getSub"])
    /\ UNCHANGED <<stores, now, started>>

\* a failed fetch is tried again
FetchSubscriptionThrows_retries(f) ==
    /\ f.pc = "fetch"
    /\ Continue(f, f)
    /\ UNCHANGED <<stores, now, started>>

\* getSubscriptionFromPayPal throws (timeout, 4xx, token exchange failed)
FetchSubscriptionThrows(f) ==
    /\ f.pc = "fetch"
    /\ Respond(f, f, ErrorResponse(f.op))
    /\ UNCHANGED <<stores, now, started>>

\* subRef.get() answers; the handler computes finalEmail and issues subRef.set
GetSubscriptionDoc(f) ==
    /\ f.pc = "getSub"
    /\ LET prevData == subscriptionsById[f.subscription.id]
       IN  Continue(f, [f EXCEPT !.prevData = prevData,
                                 !.read = @ \cup {"subscriptionsById"},
                                 !.finalEmail = FinalEmail(f.email, prevData),
                                 !.pc = "setSub"])
    /\ UNCHANGED <<stores, now, started>>

\* the index is written whatever the final email
IndexesEmail_always(finalEmail) == TRUE

\* if (finalEmail) { ... userSubscriptions/{key}.set ... }
IndexesEmail(finalEmail) == Truthy(finalEmail)

\* the webhook handler's last line
WebhookOk == Response(200, [text |-> "OK"])

\* a webhook that resolved no email answers an error
ReconciledResponse_failsUnbound(frame) ==
    IF frame.op = "validate"
    THEN ValidateResponse(frame.subscription, frame.finalEmail)
    ELSE IF Truthy(frame.finalEmail) THEN WebhookOk
    ELSE Response(500, [text |-> "ERROR"])

\* what the handler answers once the reconciliation is over
ReconciledResponse(frame) ==
    IF frame.op = "validate"
    THEN ValidateResponse(frame.subscription, frame.finalEmail)
    ELSE WebhookOk

\* a webhook records the status and the plan its event embeds
SetSubscriptionDoc_trustsPayload(f) ==
    /\ f.pc = "setSub"
    /\ LET id == f.subscription.id
           embedded == IF f.op = "webhook"
                       THEN [f.subscription EXCEPT !.status = f.payload.status,
                                                   !.plan_id = f.payload.plan_id]
                       ELSE f.subscription
           data == SubscriptionDoc(embedded, f.email, f.lastWebhookEvent, f.prevData)
           frame == [f EXCEPT !.wrote = @ \cup {"subscriptionsById"}]
       IN  /\ subscriptionsById' =
                [subscriptionsById EXCEPT ![id] = MergeSet(@, Stamped(data))]
           /\ IF IndexesEmail(f.finalEmail)
              THEN Continue(f, [frame EXCEPT !.pc = "setIdx"])
              ELSE Respond(f, frame, ReconciledResponse(frame))
    /\ UNCHANGED <<userSubscriptions, users, now, started>>

\* subRef.set lands; with a final email the index write is issued, without one
\* upsertSubscriptionInFirestore returns and the handler responds
SetSubscriptionDoc(f) ==
    /\ f.pc = "setSub"
    /\ LET id == f.subscription.id
           data == SubscriptionDoc(f.subscription, f.email, f.lastWebhookEvent, f.prevData)
           frame == [f EXCEPT !.wrote = @ \cup {"subscriptionsById"}]
       IN  /\ subscriptionsById' =
                [subscriptionsById EXCEPT ![id] = MergeSet(@, Stamped(data))]
           /\ IF IndexesEmail(f.finalEmail)
              THEN Continue(f, [frame EXCEPT !.pc = "setIdx"])
              ELSE Respond(f, frame, ReconciledResponse(frame))
    /\ UNCHANGED <<userSubscriptions, users, now, started>>

\* when the subscription was bound to another email, the index document of
\* that email is deleted with the write
SetIndexDoc_unbindsPrevious(f) ==
    /\ f.pc = "setIdx"
    /\ LET data == IndexDoc(f.subscription, f.finalEmail, f.lastWebhookEvent)
           previous == Field(f.prevData, "email")
       IN  /\ userSubscriptions' =
                [e \in Emails |->
                    IF e = data.email THEN MergeSet(userSubscriptions[e], Stamped(data))
                    ELSE IF e = previous THEN NoDoc
                    ELSE userSubscriptions[e]]
           /\ Continue(f, [f EXCEPT !.wrote = @ \cup {"userSubscriptions"},
                                    !.pc = "entitle"])
    /\ UNCHANGED <<subscriptionsById, users, now, started>>

\* userSubscriptions/{key}.set lands; upsertSubscriptionInFirestore returns
SetIndexDoc(f) ==
    /\ f.pc = "setIdx"
    /\ LET data == IndexDoc(f.subscription, f.finalEmail, f.lastWebhookEvent)
       IN  /\ userSubscriptions' =
                [userSubscriptions EXCEPT ![data.email] = MergeSet(@, Stamped(data))]
           /\ Continue(f, [f EXCEPT !.wrote = @ \cup {"userSubscriptions"},
                                    !.pc = "entitle"])
    /\ UNCHANGED <<subscriptionsById, users, now, started>>

\* the handler goes on: if (info.email) upsertUserEntitlement({...}), which
\* reads the clock (it answers t) and issues users/{email}.set
Entitle(f, t) ==
    /\ f.pc = "entitle"
    /\ LET a == PayPalEntitlementArgs(f.subscription, f.finalEmail)
       IN  IF Truthy(f.finalEmail) /\ Truthy(a.email)
           THEN /\ Continue(f, [f EXCEPT !.pending = EntitlementDoc(a, t),
                                         !.pc = "setUsers"])
                /\ now' = t
           ELSE /\ Respond(f, f, ReconciledResponse(f))
                /\ now' = now
    /\ UNCHANGED <<stores, started>>

\* the write is fenced on the rank of the provider's answer: it is dropped
\* when the last reconciliation answered had a later answer for the subscription
SetUserDoc_fenced(f) ==
    /\ f.pc = "setUsers"
    /\ LET frame == [f EXCEPT !.wrote = @ \cup {"users"}]
           stale == /\ out.op \in {"validate", "webhook"}
                    /\ out.subscriptionId = f.subscriptionId
                    /\ out.fetchNo > f.fetchNo
       IN  /\ users' = IF stale THEN users
                       ELSE [users EXCEPT ![f.pending.email] =
                                MergeSet(@, Stamped(f.pending))]
           /\ Respond(f, frame, ReconciledResponse(frame))
    /\ UNCHANGED <<subscriptionsById, userSubscriptions, now, started>>

\* users/{email}.set lands; the handler responds
SetUserDoc(f) ==
    /\ f.pc = "setUsers"
    /\ LET frame == [f EXCEPT !.wrote = @ \cup {"users"}]
       IN  /\ users' = [users EXCEPT ![f.pending.email] = MergeSet(@, Stamped(f.pending))]
           /\ Respond(f, frame, ReconciledResponse(frame))
    /\ UNCHANGED <<subscriptionsById, userSubscriptions, now, started>>

\* an error of the index write is swallowed and the handler goes on
StoreThrows_swallowed(f) ==
    /\ f.pc \in {"getSub", "setSub", "setIdx", "setUsers", "qrSetUsers", "qrSetIdx"}
    /\ IF f.pc = "setIdx"
       THEN Continue(f, [f EXCEPT !.pc = "entitle"])
       ELSE Respond(f, f, ErrorResponse(f.op))
    /\ UNCHANGED <<stores, now, started>>

\* a Firestore call of the request throws: the handler's catch answers 500
StoreThrows(f) ==
    /\ f.pc \in {"getSub", "setSub", "setIdx", "setUsers", "qrSetUsers", "qrSetIdx"}
    /\ Respond(f, f, ErrorResponse(f.op))
    /\ UNCHANGED <<stores, now, started>>

-----------------------------------------------------------------------------
(* POST /api/admin/activate-qr *)

\* a credential is accepted as soon as one is sent
UnauthorizedWith_missingOnly(adminKey, key) == ~Truthy(key)

\* if (!ADMIN_KEY || !key || key !== ADMIN_KEY) return res.status(401), for
\* the value adminKey of ADMIN_KEY
UnauthorizedWith(adminKey, key) == ~Truthy(adminKey) \/ ~Truthy(key) \/ key # adminKey

Unauthorized(key) == UnauthorizedWith(ADMIN_KEY, key)

\* the plan is not checked against the two known plans
InvalidPlan_never(plan) == FALSE

\* if (plan !== "monthly" && plan !== "yearly") return res.status(400)
InvalidPlan(plan) == plan # "monthly" /\ plan # "yearly"

\* the request arrives; the handler checks it, reads the clock (it answers t)
\* for the expiry and calls upsertUserEntitlement, which issues users/{email}.set
StartActivate(key, rawEmail, rawPlan, t) ==
    /\ CanStart
    /\ started' = started + 1
    /\ LET email == toLowerCase(OrElse(rawEmail, ""))
           plan == toLowerCase(OrElse(rawPlan, ""))
           a == QrEntitlementArgs(email, plan, t)
           gate == [Frame("activate", "qrSetUsers") EXCEPT !.key = key]
           frame == [gate EXCEPT !.email = email, !.plan = plan]
       IN  IF Unauthorized(key)
           THEN /\ Answer(gate, Response(401, [ok |-> FALSE, error |-> "Unauthorized"]))
                /\ now' = now
           ELSE IF ~Truthy(email) \/ ~Truthy(plan)
           THEN /\ Answer(frame, Response(400, [ok |-> FALSE,
                                                error |-> "Missing email or plan"]))
                /\ now' = now
           ELSE IF InvalidPlan(plan)
           THEN /\ Answer(frame, Response(400, [ok |-> FALSE,
                                                error |-> "Invalid plan. Use monthly or yearly."]))
                /\ now' = now
           ELSE /\ Start([frame EXCEPT !.expiresAtIso = a.expiresAtIso,
                                       !.pending = EntitlementDoc(a, t)])
                /\ now' = t
    /\ UNCHANGED stores

\* the fields a manual grant has no value for are left out of the write to an
\* existing document, so that the merge keeps the stored ones
QrSetUserDoc_keepsSubscription(f) ==
    /\ f.pc = "qrSetUsers"
    /\ LET kept == {"subscriptionId", "planId", "nextBillingTime", "lastPaymentTime"}
           data == IF users[f.pending.email] = NoDoc THEN f.pending
                   ELSE [k \in DOMAIN f.pending \ kept |-> f.pending[k]]
       IN  users' = [users EXCEPT ![f.pending.email] = MergeSet(@, Stamped(data))]
    /\ Continue(f, [f EXCEPT !.wrote = @ \cup {"users"},
                             !.pending = NoDoc,
                             !.pc = "qrIndex"])
    /\ UNCHANGED <<subscriptionsById, userSubscriptions, now, started>>

\* users/{email}.set lands
QrSetUserDoc(f) ==
    /\ f.pc = "qrSetUsers"
    /\ users' = [users EXCEPT ![f.pending.email] = MergeSet(@, Stamped(f.pending))]
    /\ Continue(f, [f EXCEPT !.wrote = @ \cup {"users"},
                             !.pending = NoDoc,
                             !.pc = "qrIndex"])
    /\ UNCHANGED <<subscriptionsById, userSubscriptions, now, started>>

\* the handler goes on: it reads the clock (it answers t) for the synthetic
\* subscription and issues userSubscriptions/{email}.set
QrIndex(f, t) ==
    /\ f.pc = "qrIndex"
    /\ Continue(f, [f EXCEPT !.pending = QrIndexDoc(f.email, f.plan, t),
                             !.pc = "qrSetIdx"])
    /\ now' = t
    /\ UNCHANGED <<stores, started>>

\* the response reports the expiry as it is stored, grace included
ActivateResponse_reportsStored(email, plan, expiresAtIso) ==
    Response(200, [ ok        |-> TRUE,
                    message   |-> "User activated by QR",
                    email     |-> email,
                    plan      |-> plan,
                    expiresAt |-> addGraceMs(expiresAtIso, GraceDays) ])

\* res.json({ ok: true, message: "User activated by QR", email, plan, expiresAt })
ActivateResponse(email, plan, expiresAtIso) ==
    Response(200, [ ok        |-> TRUE,
                    message   |-> "User activated by QR",
                    email     |-> email,
                    plan      |-> plan,
                    expiresAt |-> expiresAtIso ])

\* userSubscriptions/{email}.set lands; the handler responds
QrSetIndexDoc(f) ==
    /\ f.pc = "qrSetIdx"
    /\ userSubscriptions' = [userSubscriptions EXCEPT ![f.pending.email] =
                                 MergeSet(@, Stamped(f.pending))]
    /\ Respond(f, [f EXCEPT !.wrote = @ \cup {"userSubscriptions"}],
               ActivateResponse(f.email, f.plan, f.expiresAtIso))
    /\ UNCHANGED <<subscriptionsById, users, now, started>>

-----------------------------------------------------------------------------
(* The status endpoints: one read, then the response *)

\* if (!doc.exists) return res.json({ ok: true, userId, activeForApp: false, ... })
StatusNotFound(userId) ==
    Response(200, [ ok                 |-> TRUE,
                    userId             |-> userId,
                    activeForApp       |-> FALSE,
                    subscriptionStatus |-> "NONE" ])

\* the answer of status/:userId and user-status from userSubscriptions/{userId}
StatusResponse(userId, data) ==
    IF data = NoDoc THEN StatusNotFound(userId)
    ELSE Response(200, [ ok                 |-> TRUE,
                         userId             |-> userId,
                         activeForApp       |-> IsActiveStatus(Field(data, "status")),
                         subscriptionStatus |-> Field(data, "status"),
                         subscriptionId     |-> OrElse(Field(data, "subscriptionId"), NULL),
                         planId             |-> OrElse(Field(data, "planId"), NULL),
                         nextBillingTime    |-> OrElseTime(FieldTime(data, "nextBillingTime"),
                                                           NoTime),
                         lastPaymentTime    |-> OrElseTime(FieldTime(data, "lastPaymentTime"),
                                                           NoTime) ])

\* the entitlement endpoint answers the not-found shape of the legacy endpoints
EntitlementNotFound_legacyShape(email) ==
    Response(200, [ ok                 |-> TRUE,
                    userId             |-> email,
                    activeForApp       |-> FALSE,
                    subscriptionStatus |-> "NONE" ])

\* if (!doc.exists) return res.json({ ok: true, exists: false, email, proActive: false })
EntitlementNotFound(email) ==
    Response(200, [ok |-> TRUE, exists |-> FALSE, email |-> email, proActive |-> FALSE])

\* the answer of /api/app/entitlement from users/{email}
EntitlementResponse(email, data) ==
    IF data = NoDoc THEN EntitlementNotFound(email)
    ELSE Response(200, MergeSet([ok |-> TRUE, exists |-> TRUE], data))

\* GET /api/subscription/status/:userId; storeOk: whether the read succeeds
GetStatus(rawUserId, storeOk) ==
    /\ CanStart
    /\ started' = started + 1
    /\ LET userId == toLowerCase(rawUserId)
           frame == [Frame("status", "done") EXCEPT !.email = userId]
       IN  IF ~storeOk
           THEN Answer(frame, ErrorResponse("status"))
           ELSE Answer([frame EXCEPT !.prevData = userSubscriptions[userId],
                                     !.read = {"userSubscriptions"}],
                       StatusResponse(userId, userSubscriptions[userId]))
    /\ UNCHANGED <<stores, now>>

\* the handler writes back to users the entitlement it derives from the index
\* document (a lookup-only reconciliation, source "backend")
GetUserStatus_reconciles(rawUserId, storeOk) ==
    /\ CanStart
    /\ started' = started + 1
    /\ LET raw == OrElse(rawUserId, "")
           userId == toLowerCase(raw)
           frame == [Frame("userStatus", "done") EXCEPT !.email = userId]
           data == userSubscriptions[userId]
           a == [ email              |-> userId,
                  activeForApp       |-> IsActiveStatus(Field(data, "status")),
                  plan               |-> PlanOf(Field(data, "planId")),
                  source             |-> "backend",
                  subscriptionStatus |-> Field(data, "status"),
                  subscriptionId     |-> Field(data, "subscriptionId"),
                  planId             |-> Field(data, "planId"),
                  nextBillingTime    |-> FieldTime(data, "nextBillingTime"),
                  lastPaymentTime    |-> FieldTime(data, "lastPaymentTime"),
                  expiresAtIso       |-> NoTime ]
       IN  IF ~Truthy(raw)
           THEN /\ Answer(frame, Response(400, [ok |-> FALSE, message |-> "Falta userId"]))
                /\ UNCHANGED users
           ELSE IF ~storeOk
           THEN /\ Answer(frame, ErrorResponse("userStatus"))
                /\ UNCHANGED users
           ELSE /\ Answer([frame EXCEPT !.prevData = data,
                                        !.read = {"userSubscriptions"}],
                          StatusResponse(userId, data))
                /\ users' = IF data = NoDoc THEN users
                            ELSE [users EXCEPT ![userId] =
                                     MergeSet(@, Stamped(EntitlementDoc(a, now)))]
    /\ UNCHANGED <<subscriptionsById, userSubscriptions, now>>

\* GET /api/app/user-status?userId=
GetUserStatus(rawUserId, storeOk) ==
    /\ CanStart
    /\ started' = started + 1
    /\ LET raw == OrElse(rawUserId, "")
           userId == toLowerCase(raw)
           frame == [Frame("userStatus", "done") EXCEPT !.email = userId]
       IN  IF ~Truthy(raw)
           THEN Answer(frame, Response(400, [ok |-> FALSE, message |-> "Falta userId"]))
           ELSE IF ~storeOk
           THEN Answer(frame, ErrorResponse("userStatus"))
           ELSE Answer([frame EXCEPT !.prevData = userSubscriptions[userId],
                                     !.read = {"userSubscriptions"}],
                       StatusResponse(userId, userSubscriptions[userId]))
    /\ UNCHANGED <<stores, now>>

\* GET /api/app/entitlement?email=
GetEntitlement(rawEmail, storeOk) ==
    /\ CanStart
    /\ started' = started + 1
    /\ LET email == toLowerCase(OrElse(rawEmail, ""))
           frame == [Frame("entitlement", "done") EXCEPT !.email = email]
       IN  IF ~Truthy(email)
           THEN Answer(frame, Response(400, [ok |-> FALSE, message |-> "Falta email"]))
           ELSE IF ~storeOk
           THEN Answer(frame, ErrorResponse("entitlement"))
           ELSE Answer([frame EXCEPT !.prevData = users[email], !.read = {"users"}],
                       EntitlementResponse(email, users[email]))
    /\ UNCHANGED <<stores, now>>

-----------------------------------------------------------------------------
(* The system *)

\* The collections outlive the process.  The server starts on empty collections
\* or on those that earlier validate-subscription requests have left: each seed
\* is a set of <<subscription id, email>> pairs validated while the
\* subscription was ACTIVE on the monthly plan.
Seeds ==
    { {},
      {<<"I-1", "a@x.com">>},
      {<<"I-1", "b@x.com">>, <<"I-2", "a@x.com">>} }

SeedSubscription(id) == Subscription(id, <<"ACTIVE", MonthlyPlanId, toISOString(0)>>)

Init ==
    /\ \E seed \in Seeds :
         /\ subscriptionsById =
              [id \in SubIds |->
                 IF \E e \in Emails : <<id, e>> \in seed
                 THEN Stamped(SubscriptionDoc(SeedSubscription(id),
                                              CHOOSE e \in Emails : <<id, e>> \in seed,
                                              "VALIDATE_SUBSCRIPTION", NoDoc))
                 ELSE NoDoc]
         /\ userSubscriptions =
              [e \in Emails |->
                 IF \E id \in SubIds : <<id, e>> \in seed
                 THEN Stamped(IndexDoc(SeedSubscription(
                                         CHOOSE id \in SubIds : <<id, e>> \in seed),
                                       e, "VALIDATE_SUBSCRIPTION"))
                 ELSE NoDoc]
         /\ users =
              [e \in Emails |->
                 IF \E id \in SubIds : <<id, e>> \in seed
                 THEN Stamped(EntitlementDoc(
                                PayPalEntitlementArgs(
                                  SeedSubscription(CHOOSE id \in SubIds : <<id, e>> \in seed),
                                  e), 0))
                 ELSE NoDoc]
    /\ now = 0
    /\ req = EmptyBag
    /\ out = Idle
    /\ started = 0

Times == now..MaxNow

Next ==
    \/ \E id \in RawSubIds, e \in RawEmails : StartValidate(id, e)
    \/ \E event \in Events : StartWebhook(event)
    \/ \E f \in InFlight, v \in {"SUCCESS", "FAILURE"} : VerifySignature(f, v)
    \/ \E f \in InFlight : VerifySignatureThrows(f)
    \/ \E f \in InFlight : \E s \in Subscriptions(f.subscriptionId) : FetchSubscription(f, s)
    \/ \E f \in InFlight : FetchSubscriptionThrows(f)
    \/ \E f \in InFlight : GetSubscriptionDoc(f)
    \/ \E f \in InFlight : SetSubscriptionDoc(f)
    \/ \E f \in InFlight : SetIndexDoc(f)
    \/ \E f \in InFlight, t \in Times : Entitle(f, t)
    \/ \E f \in InFlight : SetUserDoc(f)
    \/ \E f \in InFlight : StoreThrows(f)
    \/ \E k \in RawKeys, e \in RawEmails, p \in RawPlans, t \in Times :
            StartActivate(k, e, p, t)
    \/ \E f \in InFlight : QrSetUserDoc(f)
    \/ \E f \in InFlight, t \in Times : QrIndex(f, t)
    \/ \E f \in InFlight : QrSetIndexDoc(f)
    \/ \E e \in RawEmails \ {NULL}, ok \in BOOLEAN : GetStatus(e, ok)
    \/ \E e \in RawEmails, ok \in BOOLEAN : GetUserStatus(e, ok)
    \/ \E e \in RawEmails, ok \in BOOLEAN : GetEntitlement(e, ok)

Spec == Init /\ [][Next]_vars

\* the call a handler awaits returns or throws (axios calls carry a timeout of
\* 15000 ms) and the event loop then resumes the handler
Resume ==
    \E f \in InFlight :
        \/ \E v \in {"SUCCESS", "FAILURE"} : VerifySignature(f, v)
        \/ VerifySignatureThrows(f)
        \/ \E s \in Subscriptions(f.subscriptionId) : FetchSubscription(f, s)
        \/ FetchSubscriptionThrows(f)
        \/ GetSubscriptionDoc(f)
        \/ SetSubscriptionDoc(f)
        \/ SetIndexDoc(f)
        \/ \E t \in Times : Entitle(f, t)
        \/ SetUserDoc(f)
        \/ StoreThrows(f)
        \/ QrSetUserDoc(f)
        \/ \E t \in Times : QrIndex(f, t)
        \/ QrSetIndexDoc(f)

\* the server under the assumption that no awaited call hangs for ever
LiveSpec == Spec /\ WF_vars(Resume)

-----------------------------------------------------------------------------
(* Properties *)

\* in this step the call that frame f awaits returns (it does not throw) and
\* the handler of f goes on
Returned(f) ==
    /\ CopiesIn(f, req') < CopiesIn(f, req)
    /\ BagCardinality(req') = BagCardinality(req) \/ out'.res.status = 200

Reconciles(f) == f.op \in {"validate", "webhook"}

\* C1: whatever status S the live fetch answers, the users write of a validate
\* or webhook reconciliation that resolved an email leaves
\* users[email].proActive TRUE exactly when S is ACTIVE, APPROVAL_PENDING or
\* APPROVED and FALSE for every other status, and the activeForApp of a
\* validate response follows the same rule.
C1_ProActiveFollowsStatus ==
    [][ /\ \A f \in InFlight :
             (Returned(f) /\ Reconciles(f) /\ f.pc = "setUsers")
             => users'[f.finalEmail].proActive =
                   (f.subscription.status \in {"ACTIVE", "APPROVAL_PENDING", "APPROVED"})
        /\ (out'.op = "validate" /\ out'.res.status = 200)
           => out'.res.body.activeForApp =
                 (out'.subscription.status \in {"ACTIVE", "APPROVAL_PENDING", "APPROVED"})
        /\ \A S \in Statuses :
             LET subscription == Subscription("I-1", <<S, MonthlyPlanId, NoTime>>)
                 active == S \in {"ACTIVE", "APPROVAL_PENDING", "APPROVED"}
             IN  /\ EntitlementDoc(PayPalEntitlementArgs(subscription, "a@x.com"),
                                   now).proActive = active
                 /\ ValidateResponse(subscription, "a@x.com").body.activeForApp = active
      ]_vars

\* a reconciliation that fetched APPROVAL_PENDING has written users[email]
\* with proActive TRUE
C1_Witness ==
    /\ Reconciles(out)
    /\ "users" \in out.wrote
    /\ out.subscription.status = "APPROVAL_PENDING"
    /\ users[out.finalEmail].subscriptionStatus = "APPROVAL_PENDING"
    /\ users[out.finalEmail].proActive

\* C2: a webhook delivery whose signature verification answers false is
\* answered at once with a client-error status and has written to none of
\* subscriptionsById, userSubscriptions and users.
C2_RejectedDeliveryWritesNothing ==
    \A f \in InFlight \cup {out} :
        (f.op = "webhook" /\ f.isValid = "false")
        => /\ f.pc = "done"
           /\ f.wrote = {}
           /\ f.res.status \in 400..499

\* a delivery with a subscription id was rejected for its signature
C2_Witness ==
    /\ out.op = "webhook"
    /\ out.isValid = "false"
    /\ Truthy(out.subscriptionId)
    /\ out.res = Response(400, [text |-> "INVALID_SIGNATURE"])

\* the users write of webhook frame f, whose fetch answered CANCELLED for a
\* subscription bound to the email of a manual grant, is about to land on
\* that grant
CancelsManualGrant(f) ==
    /\ f.op = "webhook"
    /\ f.pc = "setUsers"
    /\ f.subscription.status = "CANCELLED"
    /\ Field(f.prevData, "email") = f.finalEmail
    /\ users[f.finalEmail] # NoDoc
    /\ users[f.finalEmail].source = "qr"
    /\ users[f.finalEmail].proActive
    /\ FieldTime(users[f.finalEmail], "expiresAt") # NoTime

C4_MergeKeepsEmail ==
    [][ \A f \in InFlight :
          (Returned(f) /\ Reconciles(f) /\ f.pc = "setSub"
             /\ f.prevData = subscriptionsById[f.subscription.id])
          => LET old == subscriptionsById[f.subscription.id]
                 new == subscriptionsById'[f.subscription.id]
             IN  /\ new.status = f.subscription.status
                 /\ Truthy(Field(old, "email"))
                    => (Truthy(new.email) /\ (~Truthy(f.email) => new.email = old.email))
      ]_vars

\* a webhook that read {email: a, status: APPROVED} and fetched ACTIVE has
\* merged: the document has email a and status ACTIVE
C4_Witness ==
    \E f \in InFlight :
        /\ f.op = "webhook"
        /\ f.pc = "setIdx"
        /\ f.email = NULL
        /\ f.prevData # NoDoc
        /\ f.prevData.email = "a@x.com"
        /\ f.prevData.status = "APPROVED"
        /\ subscriptionsById[f.subscription.id].email = "a@x.com"
        /\ subscriptionsById[f.subscription.id].status = "ACTIVE"

\* C5: in every interleaving of a validate carrying email E and a webhook
\* for the same subscription id, the record keeps email E: when the validate
\* has answered and the webhook's merge then lands, subscriptionsById[id].email
\* is E.
C5_ConcurrentMergeKeepsBinding ==
    [][ \A f \in InFlight :
          (Returned(f) /\ f.op = "webhook" /\ f.pc = "setSub"
             /\ out.op = "validate" /\ out.res.status = 200
             /\ out.subscriptionId = f.subscriptionId
             /\ Truthy(out.email))
          => subscriptionsById'[f.subscriptionId].email = out.email
      ]_vars

\* frame f reconciles a subscription for which it was given no email and read
\* no bound email
Unbound(f) ==
    /\ Reconciles(f)
    /\ "subscriptionsById" \in f.read
    /\ ~Truthy(f.email)
    /\ ~Truthy(Field(f.prevData, "email"))

\* C6: a validate or webhook for a subscription with no email argument and no
\* bound email, whose calls do not fail, awaits no other write than the one
\* of subscriptionsById, answers 200 with activeForApp computed from the
\* fetched status, has written the subscriptionsById record and has written
\* neither users nor userSubscriptions.
C6_UnboundSubscription ==
    /\ \A f \in InFlight : Unbound(f) => (f.pc = "setSub" /\ f.wrote = {})
    /\ (Unbound(out) /\ out.res.status # 500)
       => /\ out.res.status = 200
          /\ out.wrote = {"subscriptionsById"}
          /\ subscriptionsById[out.subscriptionId] # NoDoc
          /\ out.op = "validate"
             => /\ out.res.body.activeForApp =
                     (out.subscription.status \in {"ACTIVE", "APPROVAL_PENDING", "APPROVED"})
                /\ out.res.body.userId = NULL

\* a validate without email for an unbound subscription answered 200 with
\* activeForApp TRUE after writing subscriptionsById only
C6_Witness ==
    /\ Unbound(out)
    /\ out.op = "validate"
    /\ out.res.status = 200
    /\ out.res.body.activeForApp
    /\ out.wrote = {"subscriptionsById"}
    /\ subscriptionsById[out.subscriptionId].status = out.subscription.status
    /\ users = [e \in Emails |-> NoDoc]
    /\ userSubscriptions = [e \in Emails |-> NoDoc]

Redelivers(f) ==
    /\ Reconciles(f)
    /\ f.pc = "setUsers"
    /\ LET old == users[f.finalEmail]
       IN  /\ old # NoDoc
           /\ old.source = "paypal"
           /\ old.subscriptionId = f.subscription.id
           /\ old.subscriptionStatus = f.subscription.status
           /\ old.planId = f.subscription.plan_id
           /\ old.nextBillingTime = f.subscription.next_billing_time
           /\ old.lastPaymentTime = f.subscription.last_payment_time

\* C8 as claimed: reconciling the same provider snapshot a second time, the
\* clock having advanced or not, leaves users[email] with the same proActive,
\* plan, subscriptionStatus and expiresAt.
C8_Idempotent ==
    [][ \A f \in InFlight :
          (Returned(f) /\ Redelivers(f))
          => LET old == users[f.finalEmail]
                 new == users'[f.finalEmail]
             IN  /\ new.proActive = old.proActive
                 /\ new.plan = old.plan
                 /\ new.subscriptionStatus = old.subscriptionStatus
                 /\ new.expiresAt = old.expiresAt
      ]_vars

\* C8 amended: reconciling the same provider snapshot a second time leaves
\* users[email] with the same proActive, plan and subscriptionStatus; a null
\* expiresAt stays null, and any other expiresAt is computed anew from the
\* clock of the second run, so that it moves by the time between the clock
\* readings of the two runs.
C8_IdempotentButExpiry ==
    [][ \A f \in InFlight :
          (Returned(f) /\ Redelivers(f))
          => LET old == users[f.finalEmail]
                 new == users'[f.finalEmail]
             IN  /\ new.proActive = old.proActive
                 /\ new.plan = old.plan
                 /\ new.subscriptionStatus = old.subscriptionStatus
                 /\ (new.expiresAt = NoTime) = (old.expiresAt = NoTime)
                 /\ new.expiresAt # NoTime
                    => DateParse(new.expiresAt) - DateParse(old.expiresAt)
                         = DateParse(new.lastValidatedAt) - DateParse(old.lastValidatedAt)
      ]_vars

\* the second reconciliation of an ACTIVE monthly snapshot read the clock
\* later than the first and its users write is awaited
C8_Witness ==
    \E f \in InFlight :
        /\ Redelivers(f)
        /\ f.op = "webhook"
        /\ f.pending.expiresAt # NoTime
        /\ users[f.finalEmail].expiresAt # NoTime
        /\ DateParse(f.pending.lastValidatedAt) > DateParse(users[f.finalEmail].lastValidatedAt)
        /\ DateParse(f.pending.expiresAt) > DateParse(users[f.finalEmail].expiresAt)

\* a status endpoint read its collection and found no document for the email
NotFound(f) ==
    /\ f.op \in {"status", "userStatus", "entitlement"}
    /\ f.read # {}
    /\ f.prevData = NoDoc

\* C9 as claimed: a status lookup for an email without stored record answers,
\* without error, activeForApp false and subscriptionStatus "NONE" on each of
\* status/:userId, user-status and entitlement.
C9_NotFoundShape ==
    NotFound(out)
    => /\ out.res.status = 200
       /\ {"activeForApp", "subscriptionStatus"} \subseteq DOMAIN out.res.body
       /\ out.res.body.activeForApp = FALSE
       /\ out.res.body.subscriptionStatus = "NONE"

\* C9 amended: a status lookup for an email without stored record answers,
\* without error, a fixed not-found shape: activeForApp false and
\* subscriptionStatus "NONE" on status/:userId and user-status, exists false
\* and proActive false (no activeForApp, no subscriptionStatus) on entitlement.
C9_NotFoundShapePerEndpoint ==
    NotFound(out)
    => /\ out.res.status = 200
       /\ out.res.body.ok
       /\ IF out.op = "entitlement"
          THEN out.res.body = [ok |-> TRUE, exists |-> FALSE,
                               email |-> out.email, proActive |-> FALSE]
          ELSE out.res.body = [ok |-> TRUE, userId |-> out.email,
                               activeForApp |-> FALSE, subscriptionStatus |-> "NONE"]

\* the entitlement endpoint answered for an email without users document
C9_Witness ==
    /\ NotFound(out)
    /\ out.op = "entitlement"
    /\ out.email = "a@x.com"
    /\ out.res.body.exists = FALSE

\* C10: after a status query for an email with no subscription record and no
\* index entry, users[email] exists and is inactive: proActive FALSE and
\* subscriptionStatus "NONE".
C10_LookupWritesInactive ==
    ( /\ NotFound(out)
      /\ out.op \in {"userStatus", "entitlement"}
      /\ req = EmptyBag
      /\ userSubscriptions[out.email] = NoDoc
      /\ \A id \in SubIds : Field(subscriptionsById[id], "email") # out.email )
    => /\ users[out.email] # NoDoc
       /\ users[out.email].proActive = FALSE
       /\ users[out.email].subscriptionStatus = "NONE"

\* C11: an activate-qr request whose x-admin-key header is missing or differs
\* from ADMIN_KEY is answered 401 before any await and has read and written
\* no collection; with no ADMIN_KEY configured every request is unauthorized.
C11_UnauthorizedWritesNothing ==
    /\ \A f \in InFlight \cup {out} :
          (f.op = "activate" /\ (~Truthy(f.key) \/ f.key # ADMIN_KEY))
          => /\ f.pc = "done"
             /\ f.res.status = 401
             /\ f.wrote = {}
             /\ f.read = {}
    /\ \A key \in RawKeys \cup {""} : UnauthorizedWith("", key)

\* a request with a wrong key was answered 401
C11_Witness ==
    /\ out.op = "activate"
    /\ out.key = "wrong"
    /\ out.res = Response(401, [ok |-> FALSE, error |-> "Unauthorized"])
    /\ out.wrote = {}

\* C12: an authorized activate-qr request without email, without plan or with
\* a plan other than monthly and yearly is answered with a 4xx status before
\* any await and has written no collection; no users document with source
\* "qr" has a plan outside {monthly, yearly}.
C12_InvalidArgumentWritesNothing ==
    /\ \A f \in InFlight \cup {out} :
          ( /\ f.op = "activate"
            /\ f.key = ADMIN_KEY
            /\ ~Truthy(f.email) \/ ~Truthy(f.plan) \/ f.plan \notin {"monthly", "yearly"} )
          => /\ f.pc = "done"
             /\ f.res.status \in 400..499
             /\ f.wrote = {}
    /\ \A e \in Emails :
          (users[e] # NoDoc /\ users[e].source = "qr")
          => users[e].plan \in {"monthly", "yearly"}

\* an authorized request for the plan "weekly" was answered 400
C12_Witness ==
    /\ out.op = "activate"
    /\ out.key = ADMIN_KEY
    /\ out.email = "a@x.com"
    /\ out.plan = "weekly"
    /\ out.res.status = 400
    /\ out.wrote = {}

\* C13: whatever is stored for the email, the users write of an accepted
\* activate-qr request leaves users[email] with proActive TRUE, the plan of
\* the request, source "qr" and subscriptionStatus "ACTIVE", and its index
\* write leaves userSubscriptions[email] with status ACTIVE and a synthetic
\* subscription id MANUAL_QR_<clock>; the request is then answered 200.
C13_ManualGrantActivates ==
    [][ \A f \in InFlight :
          (Returned(f) /\ f.op = "activate")
          => /\ f.pc = "qrSetUsers"
                => LET entitlement == users'[f.email]
                   IN  /\ entitlement.proActive
                       /\ entitlement.plan = f.plan
                       /\ entitlement.source = "qr"
                       /\ entitlement.subscriptionStatus = "ACTIVE"
                       /\ entitlement.email = f.email
             /\ f.pc = "qrSetIdx"
                => LET index == userSubscriptions'[f.email]
                   IN  /\ index.status = "ACTIVE"
                       /\ index.subscriptionId
                            \in { "MANUAL_QR_" \o ToString(t) : t \in 0..MaxNow }
                       /\ index.subscriptionId \notin SubIds
                       /\ out'.op = "activate"
                       /\ out'.res.body.email = f.email
                       /\ out'.res.body.plan = f.plan
      ]_vars

\* an activate-qr request was answered 200 and users[email] is the manual
\* grant although the subscription bound to the email is CANCELLED
C13_Witness ==
    /\ out.op = "activate"
    /\ out.res.status = 200
    /\ users[out.email].source = "qr"
    /\ users[out.email].proActive
    /\ users[out.email].plan = out.plan
    /\ userSubscriptions[out.email].lastWebhookEvent = "MANUAL_QR_ACTIVATION"
    /\ \E id \in SubIds :
          /\ subscriptionsById[id] # NoDoc
          /\ subscriptionsById[id].email = out.email
          /\ subscriptionsById[id].status = "CANCELLED"

\* C14 as claimed: a webhook delivery whose signature verification throws is
\* not processed, is answered with a client-error status and has read and
\* written no collection.
C14_VerificationErrorRejected ==
    \A f \in InFlight \cup {out} :
        (f.op = "webhook" /\ f.isValid = "error")
        => /\ f.pc = "done"
           /\ f.res.status \in 400..499
           /\ f.subscription = NoDoc
           /\ f.wrote = {}
           /\ f.read = {}

\* C14 amended: a webhook delivery whose signature verification throws is
\* not processed (no fetch, no collection read or written) and is answered
\* with the server-error status 500 "ERROR".
C14_VerificationErrorAnswers500 ==
    \A f \in InFlight \cup {out} :
        (f.op = "webhook" /\ f.isValid = "error")
        => /\ f.pc = "done"
           /\ f.res = Response(500, [text |-> "ERROR"])
           /\ f.subscription = NoDoc
           /\ f.wrote = {}
           /\ f.read = {}

\* the verification of a delivery with a subscription id threw
C14_Witness ==
    /\ out.op = "webhook"
    /\ out.isValid = "error"
    /\ Truthy(out.subscriptionId)
    /\ out.res.status = 500

\* C15: a verified webhook whose event has no resource id is answered 200
\* right after the verification: no subscription is fetched and no
\* collection is read or written for it.
C15_NoSubscriptionIdIsNoOp ==
    \A f \in InFlight \cup {out} :
        (f.op = "webhook" /\ f.isValid = "true" /\ ~Truthy(f.subscriptionId))
        => /\ f.pc = "done"
           /\ f.res = Response(200, [text |-> "NO_SUBSCRIPTION_ID"])
           /\ f.subscription = NoDoc
           /\ f.wrote = {}
           /\ f.read = {}

\* a verified delivery without subscription id was acknowledged
C15_Witness ==
    /\ out.op = "webhook"
    /\ out.isValid = "true"
    /\ ~Truthy(out.subscriptionId)
    /\ out.res.status = 200
    /\ out.wrote = {}

\* C16: a verified webhook whose fetch and store calls all return is answered
\* 200 "OK", with a resolved email (users written) or without one; without
\* one it writes neither users nor userSubscriptions.
C16_CompletedWebhookAcknowledged ==
    /\ ( /\ out.op = "webhook"
         /\ out.wrote # {}
         /\ Truthy(out.finalEmail) => "users" \in out.wrote )
       => (out.res = WebhookOk /\ out.isValid = "true")
    /\ \A f \in InFlight \cup {out} :
          (f.op = "webhook" /\ Unbound(f))
          => ("users" \notin f.wrote /\ "userSubscriptions" \notin f.wrote)

\* a webhook for a subscription without bound email merged the subscription
\* and was acknowledged, users being left without document
C16_Witness ==
    /\ out.op = "webhook"
    /\ Unbound(out)
    /\ out.wrote = {"subscriptionsById"}
    /\ out.res = WebhookOk
    /\ subscriptionsById[out.subscriptionId].lastWebhookEvent
         = "BILLING.SUBSCRIPTION.CANCELLED"
    /\ users = [e \in Emails |-> NoDoc]

\* the fetch of the subscription of frame f threw
FetchFailed(f) ==
    /\ Reconciles(f)
    /\ f.pc = "done"
    /\ Truthy(f.subscriptionId)
    /\ f.op = "webhook" => f.isValid = "true"
    /\ f.subscription = NoDoc

\* C17: a validate or webhook request whose subscription fetch fails or
\* times out is answered with an error status and has read and written no
\* collection.
C17_FetchFailureWritesNothing ==
    FetchFailed(out)
    => /\ out.res.status \in 500..599
       /\ out.wrote = {}
       /\ out.read = {}

\* the fetch of a validate request failed; the documents stored before are there
C17_Witness ==
    /\ FetchFailed(out)
    /\ out.op = "validate"
    /\ out.email = "a@x.com"
    /\ out.res.status = 500
    /\ subscriptionsById[out.subscriptionId] # NoDoc
    /\ subscriptionsById[out.subscriptionId].status = "ACTIVE"

\* C18: a reconciliation stops at the first store call that fails: a write is
\* awaited only when all writes before it have landed, a reconciliation that
\* did not land all its writes is answered 500, and a request answered with
\* an error has not written users.
C18_StoreFailureAborts ==
    /\ \A f \in InFlight :
          Reconciles(f)
          => /\ f.pc = "setSub" => f.wrote = {}
             /\ f.pc = "setIdx" => f.wrote = {"subscriptionsById"}
             /\ f.pc \in {"entitle", "setUsers"}
                => f.wrote = {"subscriptionsById", "userSubscriptions"}
    /\ Reconciles(out)
       => /\ "users" \in out.wrote
             => out.wrote = {"subscriptionsById", "userSubscriptions", "users"}
          /\ out.res.status = 500 => "users" \notin out.wrote
          /\ ( /\ "subscriptionsById" \in out.read
               /\ \/ out.wrote = {}
                  \/ Truthy(out.finalEmail) /\ "users" \notin out.wrote )
             => out.res.status = 500

\* the users write of a validate request failed after its two other writes:
\* the request was answered 500 and users[email] is as before, without document
C18_Witness ==
    /\ Reconciles(out)
    /\ out.res.status = 500
    /\ out.wrote = {"subscriptionsById", "userSubscriptions"}
    /\ userSubscriptions[out.finalEmail] # NoDoc
    /\ users[out.finalEmail] = NoDoc

WebhookInFlight == \E f \in InFlight : f.op = "webhook"

\* the number of times frame f has awaited call c
TimesCalled(f, c) == Cardinality({ i \in DOMAIN f.calls : f.calls[i] = c })

\* C19: provided every awaited call returns or throws, every webhook delivery
\* gets its response; a handler leaves with one response, and a delivery
\* awaits the verification, the fetch and each call of the reconciliation at
\* most once (no internal retry).
C19_WebhookAnsweredOnce ==
    /\ [] \A f \in InFlight :
             f.op = "webhook"
             => \A c \in {"verify", "fetch", "getSub", "setSub", "setIdx", "setUsers"} :
                   TimesCalled(f, c) <= 1
    /\ [][ BagCardinality(req') < BagCardinality(req)
             => /\ BagCardinality(req') = BagCardinality(req) - 1
                /\ out'.pc = "done"
                /\ out'.res.status \in {200, 400, 500} ]_vars
    /\ WebhookInFlight ~> ~WebhookInFlight

\* a delivery went through the verification, the fetch and the three writes
\* and was answered; no delivery is in flight
C19_Witness ==
    /\ out.op = "webhook"
    /\ out.isValid = "true"
    /\ out.wrote = {"subscriptionsById", "userSubscriptions", "users"}
    /\ out.res = WebhookOk
    /\ ~WebhookInFlight
    /\ started = MaxOps

\* this step is a request to one of the three status endpoints, answered at once
StatusQuery ==
    /\ started' = started + 1
    /\ req' = req
    /\ out'.op \in {"status", "userStatus", "entitlement"}

\* no index document and no subscription record is bound to email e
Unrecorded(e) ==
    /\ userSubscriptions[e] = NoDoc
    /\ \A id \in SubIds : Field(subscriptionsById[id], "email") # e

\* C20: a status query leaves subscriptionsById and userSubscriptions
\* unchanged; in users it changes at most lastValidatedAt (and updatedAt) of a
\* document, or sets the not-found shape for an email without record; the
\* proActive, plan and expiresAt of the entitlement of a recorded email stay.
C20_StatusQueriesKeepStores ==
    [][ StatusQuery
        => /\ subscriptionsById' = subscriptionsById
           /\ userSubscriptions' = userSubscriptions
           /\ \A e \in Emails :
                 \/ users'[e] = users[e]
                 \/ /\ users[e] # NoDoc
                    /\ DOMAIN users'[e] = DOMAIN users[e]
                    /\ \A k \in DOMAIN users[e] \ {"lastValidatedAt", "updatedAt"} :
                          users'[e][k] = users[e][k]
                 \/ /\ Unrecorded(e)
                    /\ users'[e] # NoDoc
                    /\ users'[e].proActive = FALSE
                    /\ users'[e].subscriptionStatus = "NONE"
           /\ \A e \in Emails :
                 (users[e] # NoDoc /\ ~Unrecorded(e))
                 => /\ users'[e].proActive = users[e].proActive
                    /\ users'[e].plan = users[e].plan
                    /\ users'[e].expiresAt = users[e].expiresAt
      ]_vars

\* the last of the requests was a user-status query for an email with an
\* active entitlement: the entitlement is the one of the first reconciliation
C20_Witness ==
    /\ started = MaxOps
    /\ out.op = "userStatus"
    /\ out.prevData # NoDoc
    /\ out.res.body.activeForApp
    /\ users[out.email] # NoDoc
    /\ users[out.email].proActive
    /\ users[out.email].source = "paypal"
    /\ users[out.email].lastValidatedAt = toISOString(0)

\* the value of field k in the snapshot that reconciliation f merges into the
\* subscription record: null or absent is NULL for a string, NoTime for an instant
Incoming(f, k) ==
    CASE k = "email"            -> OrElse(f.email, NULL)
      [] k = "startTime"        -> f.subscription.start_time
      [] k = "nextBillingTime"  -> f.subscription.next_billing_time
      [] k = "lastPaymentTime"  -> f.subscription.last_payment_time
      [] k = "lastWebhookEvent" -> OrElse(f.lastWebhookEvent, NULL)

\* field k holds null in value v
IsNull(k, v) ==
    IF k \in {"email", "lastWebhookEvent"} THEN v = NULL ELSE v = NoTime

\* C21: when subRef.set of a reconciliation lands, each of email, startTime,
\* nextBillingTime, lastPaymentTime and lastWebhookEvent that is null in the
\* incoming snapshot and non-null in the stored record keeps its stored value.
C21_MergeRetainsEveryField ==
    [][ \A f \in InFlight :
          (Returned(f) /\ Reconciles(f) /\ f.pc = "setSub")
          => LET doc == subscriptionsById[f.subscription.id]
             IN  \A k \in {"email", "startTime", "nextBillingTime",
                           "lastPaymentTime", "lastWebhookEvent"} :
                    (doc # NoDoc /\ IsNull(k, Incoming(f, k)) /\ ~IsNull(k, doc[k]))
                    => subscriptionsById'[f.subscription.id][k] = doc[k]
      ]_vars

\* the days of offline validity of a known plan
PlanDays(plan) == IF plan = "yearly" THEN 365 ELSE 30

\* C22: every active entitlement with a known plan that a reconciliation or a
\* manual grant wrote has expiresAt = the time of the operation (its
\* lastValidatedAt) + 30 days (monthly) or 365 days (yearly) + the 2 days of
\* grace, which is not earlier than that time + the plan's days.
C22_OfflineExpiry ==
    \A e \in Emails :
        (/\ users[e] # NoDoc
         /\ users[e].proActive
         /\ users[e].plan \in {"monthly", "yearly"}
         /\ users[e].source \in {"paypal", "qr"})
        => LET t == DateParse(users[e].lastValidatedAt)
           IN  /\ users[e].expiresAt = toISOString(t + PlanDays(users[e].plan) + 2)
               /\ DateParse(users[e].expiresAt) >= t + PlanDays(users[e].plan)

\* a manual yearly grant and a provider reconciliation of a yearly
\* subscription, both at time 1, have written their entitlements
C22_Witness ==
    /\ req = EmptyBag
    /\ \E e \in Emails :
          /\ users[e] # NoDoc
          /\ users[e].source = "qr"
          /\ users[e].plan = "yearly"
          /\ users[e].lastValidatedAt = toISOString(1)
          /\ users[e].expiresAt = toISOString(368)
    /\ \E e \in Emails :
          /\ users[e] # NoDoc
          /\ users[e].source = "paypal"
          /\ users[e].proActive
          /\ users[e].plan = "yearly"
          /\ users[e].lastValidatedAt = toISOString(1)
          /\ users[e].expiresAt = toISOString(368)

\* C23: an entitlement written by a provider reconciliation whose planId is
\* not in the plan table has plan = null; it is active when the status is an
\* active one, and then its expiresAt is null.
C23_UnknownPlanNotGuessed ==
    \A e \in Emails :
        (/\ users[e] # NoDoc
         /\ users[e].source = "paypal"
         /\ users[e].planId \notin {MonthlyPlanId, YearlyPlanId})
        => /\ users[e].plan = NULL
           /\ users[e].plan \notin {"monthly", "yearly"}
           /\ users[e].subscriptionStatus \in {"ACTIVE", "APPROVAL_PENDING", "APPROVED"}
              => (users[e].proActive /\ users[e].expiresAt = NoTime)

\* a reconciliation has written the entitlement of an active subscription on
\* a plan that is not in the table
C23_Witness ==
    /\ Reconciles(out)
    /\ "users" \in out.wrote
    /\ out.subscription.plan_id = "P-OTHER"
    /\ out.subscription.status = "APPROVAL_PENDING"
    /\ users[out.finalEmail].planId = "P-OTHER"
    /\ users[out.finalEmail].proActive
    /\ users[out.finalEmail].expiresAt = NoTime

\* the entitlement fields of users document doc
View(doc) ==
    [k \in {"proActive", "plan", "source", "subscriptionStatus", "subscriptionId",
            "planId", "nextBillingTime", "lastPaymentTime", "expiresAt"} |-> doc[k]]

FromFetch(doc, s) ==
    /\ Field(doc, "subscriptionStatus") = NULL => doc.status = s.status
    /\ Field(doc, "subscriptionStatus") # NULL => doc.subscriptionStatus = s.status
    /\ doc.planId = s.plan_id
    /\ doc.nextBillingTime = s.next_billing_time
    /\ doc.lastPaymentTime = s.last_payment_time

\* webhook delivery f comes second after a completed delivery of the same
\* event type for the same resource id that embedded other fields, saw the
\* same answer of the provider and read the same clock
SecondOfTwo(f) ==
    /\ f.op = "webhook"
    /\ started = 2 /\ BagCardinality(req) = 1
    /\ out.op = "webhook"
    /\ out.res = WebhookOk
    /\ out.wrote = {"subscriptionsById", "userSubscriptions", "users"}
    /\ out.subscriptionId = f.subscriptionId
    /\ out.payload # f.payload
    /\ out.subscription = f.subscription
    /\ subscriptionsById[f.subscriptionId].lastWebhookEvent = f.lastWebhookEvent
    /\ f.pc = "setUsers" => users[f.finalEmail].lastValidatedAt = f.pending.lastValidatedAt

\* C25: what a verified webhook delivery writes to the three collections as
\* status, plan and billing times is what the live fetch answered, whatever
\* its payload embeds; and the writes of a second delivery that differs from a
\* completed one only in the embedded fields leave the stores as they were.
C25_PayloadIsOnlyAHint ==
    [][ \A f \in InFlight :
          (Returned(f) /\ f.op = "webhook")
          => /\ f.pc = "setSub"
                => FromFetch(subscriptionsById'[f.subscriptionId], f.subscription)
             /\ f.pc = "setIdx"
                => FromFetch(userSubscriptions'[f.finalEmail], f.subscription)
             /\ f.pc = "setUsers"
                => FromFetch(users'[f.finalEmail], f.subscription)
             /\ (SecondOfTwo(f) /\ f.pc \in {"setSub", "setIdx", "setUsers"})
                => stores' = stores
      ]_vars

\* a delivery that embeds CANCELLED on the yearly plan comes second after one
\* that embedded ACTIVE on the monthly plan; both fetched ACTIVE on the
\* monthly plan, the second has written the record and the index and its
\* users write is awaited
C25_Witness ==
    \E f \in InFlight :
        /\ SecondOfTwo(f)
        /\ f.pc = "setUsers"
        /\ f.wrote = {"subscriptionsById", "userSubscriptions"}
        /\ f.payload.status = "CANCELLED"
        /\ f.payload.plan_id = YearlyPlanId
        /\ f.subscription.status = "ACTIVE"
        /\ f.subscription.plan_id = MonthlyPlanId
        /\ subscriptionsById[f.subscriptionId].status = "ACTIVE"
        /\ userSubscriptions[f.finalEmail].planId = MonthlyPlanId

\* the calls of a webhook delivery in the order of its state machine:
\* RECEIVED, SIGNATURE_CHECKED (verify), STATE_FETCHED (fetch), RECONCILED
\* (the read and the three writes)
DeliverySteps == <<"verify", "fetch", "getSub", "setSub", "setIdx", "setUsers">>

\* C26: the calls a webhook delivery has made are a prefix of verify, fetch,
\* read, writes; it has called the fetch only with its signature verified as
\* valid and the store only with the answer of the fetch; a delivery whose
\* signature was not verified as valid has ended without fetch and without write.
C26_DeliveryStateMachine ==
    /\ \A f \in InFlight :
          f.op = "webhook"
          => /\ Len(f.calls) <= Len(DeliverySteps)
             /\ f.calls = SubSeq(DeliverySteps, 1, Len(f.calls))
             /\ Len(f.calls) >= 2 => f.isValid = "true"
             /\ Len(f.calls) >= 3 => (f.isValid = "true" /\ f.subscription # NoDoc)
             /\ f.wrote # {} => Len(f.calls) >= 5
             /\ f.isValid \in {NULL, "true"}
    /\ (out.op = "webhook" /\ out.wrote # {})
       => (out.isValid = "true" /\ out.subscription # NoDoc)
    /\ (out.op = "webhook" /\ out.isValid # "true")
       => (out.pc = "done" /\ out.subscription = NoDoc /\ out.wrote = {})

\* one delivery was rejected for its signature and has ended; another, verified,
\* has fetched and written the record and the index, and awaits its users write
C26_Witness ==
    /\ out.op = "webhook"
    /\ out.isValid = "false"
    /\ out.res.status = 400
    /\ \E f \in InFlight :
          /\ f.op = "webhook"
          /\ f.calls = DeliverySteps
          /\ f.wrote = {"subscriptionsById", "userSubscriptions"}

\* the users write of reconciliation f is awaited while a reconciliation of
\* the same subscription and email, whose answer of the provider came later
\* and differs in status, has completed
WritesStale(f) ==
    /\ Reconciles(f)
    /\ f.pc = "setUsers"
    /\ Reconciles(out)
    /\ out.res.status = 200
    /\ "users" \in out.wrote
    /\ out.subscriptionId = f.subscriptionId
    /\ out.finalEmail = f.finalEmail
    /\ out.fetchNo > f.fetchNo
    /\ out.subscription.status # f.subscription.status

\* C27: nothing fences the write of the reconciliation whose answer of the
\* provider is the older one: when it lands last, users[email] takes the older
\* status and expiry, and with the record already overwritten both
\* users[email] and subscriptionsById[id] hold the older status once both
\* reconciliations have completed.
C27_StaleFetchWritesLast ==
    [][ \A f \in InFlight :
          (Returned(f) /\ WritesStale(f))
          => /\ users'[f.finalEmail].subscriptionStatus = f.subscription.status
             /\ users'[f.finalEmail].subscriptionStatus # out.subscription.status
             /\ users'[f.finalEmail].expiresAt = f.pending.expiresAt
             /\ out'.fetchNo = f.fetchNo
             /\ (BagCardinality(req) = 1
                   /\ subscriptionsById[f.subscriptionId].status = f.subscription.status)
                => /\ req' = EmptyBag
                   /\ subscriptionsById'[f.subscriptionId].status = f.subscription.status
      ]_vars

\* the provider answered ACTIVE to one reconciliation and then CANCELLED to
\* another of the same subscription; the second has completed and revoked the
\* entitlement; the first has since written ACTIVE over the record and its
\* users write is all that is awaited
C27_Witness ==
    /\ BagCardinality(req) = 1
    /\ \E f \in InFlight :
          /\ WritesStale(f)
          /\ f.subscription.status = "ACTIVE"
          /\ out.subscription.status = "CANCELLED"
          /\ ~users[f.finalEmail].proActive
          /\ subscriptionsById[f.subscriptionId].status = "ACTIVE"
          /\ f.pending.proActive
          /\ f.pending.expiresAt # NoTime

\* C28: in every reachable state every users document has proActive TRUE
\* exactly when its subscriptionStatus is ACTIVE, APPROVAL_PENDING or APPROVED.
C28_ProActiveMatchesStatus ==
    \A e \in Emails :
        users[e] # NoDoc
        => users[e].proActive =
              (users[e].subscriptionStatus \in {"ACTIVE", "APPROVAL_PENDING", "APPROVED"})

\* a manual grant and a reconciliation that fetched CANCELLED have both
\* written their entitlement
C28_Witness ==
    /\ \E e \in Emails :
          /\ users[e] # NoDoc
          /\ users[e].source = "qr"
          /\ users[e].proActive
    /\ \E e \in Emails :
          /\ users[e] # NoDoc
          /\ users[e].source = "paypal"
          /\ users[e].subscriptionStatus = "CANCELLED"
          /\ ~users[e].proActive

\* C29: whenever no request is in flight, for every email that has both an
\* index document and an entitlement, the status of the index is an active
\* one exactly when the entitlement has proActive TRUE.
C29_IndexAgreesWithEntitlement ==
    req = EmptyBag
    => \A e \in Emails :
          (userSubscriptions[e] # NoDoc /\ users[e] # NoDoc)
          => (userSubscriptions[e].status \in {"ACTIVE", "APPROVAL_PENDING", "APPROVED"})
                = users[e].proActive

\* C30: a step of a validate or webhook reconciliation of subscription id I
\* that resolved email E (none before it has read the record) leaves every
\* subscription record other than I's and the index document and the
\* entitlement of every email other than E unchanged; so a validate that
\* rebinds I from E1 to E2 leaves users[E1] and userSubscriptions[E1] as
\* they were.
C30_TouchesOnlyItsKeys ==
    [][ \A f \in InFlight :
          (Reconciles(f) /\ CopiesIn(f, req') < CopiesIn(f, req))
          => /\ \A id \in SubIds \ {f.subscriptionId} :
                   subscriptionsById'[id] = subscriptionsById[id]
             /\ \A e \in Emails \ {f.finalEmail} :
                   /\ userSubscriptions'[e] = userSubscriptions[e]
                   /\ users'[e] = users[e]
      ]_vars

\* a validate has rebound I-1 from b@x.com to a@x.com with the status
\* CANCELLED and written the entitlement of a@x.com; the index document and
\* the entitlement of b@x.com are those of I-1 while it was ACTIVE
C30_Witness ==
    /\ out.op = "validate"
    /\ out.res.status = 200
    /\ out.wrote = {"subscriptionsById", "userSubscriptions", "users"}
    /\ out.prevData.email = "b@x.com"
    /\ out.finalEmail = "a@x.com"
    /\ out.subscription.status = "CANCELLED"
    /\ subscriptionsById["I-1"].email = "a@x.com"
    /\ userSubscriptions["b@x.com"].subscriptionId = "I-1"
    /\ userSubscriptions["b@x.com"].status = "ACTIVE"
    /\ users["b@x.com"].subscriptionId = "I-1"
    /\ users["b@x.com"].proActive

\* C31: the users write of a manual grant stores as expiresAt the instant the
\* handler computed (the time of the grant + 30 or 365 days) extended by 2
\* days, and the response of the grant reports the instant the handler
\* computed: the stored expiry is the reported one plus the 2 days of grace,
\* and is still so when the grant answers unless another request has written
\* the entitlement since.
C31_StoredExpiryIsReportedPlusGrace ==
    [][ \A f \in InFlight :
          (Returned(f) /\ f.op = "activate")
          => /\ f.pc = "qrSetUsers"
                => /\ users'[f.email].expiresAt =
                         toISOString(DateParse(f.expiresAtIso) + 2)
                   /\ DateParse(f.expiresAtIso) =
                         DateParse(users'[f.email].lastValidatedAt) + PlanDays(f.plan)
             /\ f.pc = "qrSetIdx"
                => /\ out'.res.status = 200
                   /\ out'.res.body.expiresAt = f.expiresAtIso
                   /\ (/\ users[f.email].source = "qr"
                       /\ users[f.email].plan = f.plan
                       /\ DateParse(users[f.email].lastValidatedAt) + PlanDays(f.plan)
                             = DateParse(f.expiresAtIso))
                      => users'[f.email].expiresAt =
                            toISOString(DateParse(out'.res.body.expiresAt) + 2)
      ]_vars

\* a yearly grant made at time 1 has answered: it reports day 366 and the
\* entitlement it wrote expires on day 368
C31_Witness ==
    /\ req = EmptyBag
    /\ out.op = "activate"
    /\ out.res.status = 200
    /\ out.plan = "yearly"
    /\ out.res.body.expiresAt = toISOString(366)
    /\ users[out.email].source = "qr"
    /\ users[out.email].lastValidatedAt = toISOString(1)
    /\ users[out.email].expiresAt = toISOString(368)

====
